---- MODULE Spec2Model ----
(***************************************************************************)
(* State-machine model of source/viewer/RiftViewer.cpp: the tick loop of   *)
(* MainLoop (key handling, forced pause, menu, audio/video drift decision, *)
(* frame readahead, per-eye rendering) and the session life cycle around   *)
(* it.  One action is one whole loop iteration (or one whole call of       *)
(* MainLoop up to its first iteration).  Time is in whole milliseconds and *)
(* is read once per iteration.                                             *)
(*                                                                         *)
(* MenuScreen, Soundtrack, VideoFile and Platform.Run are used by the file *)
(* but defined elsewhere; they are modelled from their documented          *)
(* interface (spec.md, section 6).                                         *)
(***************************************************************************)
EXTENDS Integers, Sequences, FiniteSets, TLC

VARIABLES
  pc,            \* "main": at the start of main; "run": Platform.Run is about to call MainLoop;
                 \* "loop": inside the while loop; "exit": MainLoop returned false;
                 \* "fatal": VALIDATE/CHECK aborted the process
  flags,         \* the command line: FLAGS_rig, FLAGS_catalog, FLAGS_strip_files,
                 \* FLAGS_background_catalog, FLAGS_background_file
  retryCreate,   \* MainLoop's parameter (line 233, overwritten at line 348)
  returned,      \* "none" or the value the last call of MainLoop returned ("true"/"false")
  now,           \* getCurrentTime(), ms
  Key,           \* Platform.Key: the keys of interest physically down at the last HandleMessages()
  depressedKeys, \* static std::set<char> depressedKeys (line 210)
  startTime,     \* static Time startTime (line 200), ms
  pause,         \* static bool pause (line 331)
  started,       \* static bool started (line 332)
  fade,          \* static int fade (line 334)
  Yaw,           \* static float Yaw (line 353), in steps of 0.02 rad from its initial value
  Pos2,          \* static Vector3f Pos2 (line 354), as the number of translation steps applied
  scene,         \* RigScene scene: [renderBackground, subframes]
  menu,          \* MenuScreen menu: [isHidden, fading]
  videoFile,     \* VideoFile videoFile: [numFrames, front, outstanding]
  soundtrack,    \* Soundtrack soundtrack: [loaded, playing, elapsedMs]
  hist,          \* history: the last pause event of the session
  unfired,       \* history: the edge-triggered keys held down whose press has not fired yet
  log            \* what the last step did

vars == <<pc, flags, retryCreate, returned, now, Key, depressedKeys, startTime, pause,
          started, fade, Yaw, Pos2, scene, menu, videoFile, soundtrack, hist, unfired, log>>

-----------------------------------------------------------------------------
(* Program constants *)

Fps == 30
kHeadboxFade == 2
kMaxVideoLag == 90
kMaxAudioLag == 5
ReadaheadDepth == 3

(* Bounds of the model *)

MaxTime == 100        \* the wall clock stops the model at this many ms
NumFrames == 7        \* frames.size() of the multi-frame catalog
MaxYaw == 1           \* |Yaw| in steps
MaxPos == 1           \* translation steps

TickDurations == {10, 40}          \* ms between two iterations of the loop
AudioTimes == {0, 100, 145}        \* values Soundtrack::getElapsedMs() can return
FrameCounts == {1, NumFrames}      \* single-frame and multi-frame catalogs
AudioChoices == BOOLEAN            \* FLAGS_audio given and loaded, or not

-----------------------------------------------------------------------------
(* Configuration *)

FlagNames == {"rig", "catalog", "strip_files", "background_catalog", "background_file"}
FlagValues == {"", "x"}             \* not given, given
AllFlags == [FlagNames -> FlagValues]

\* a command line with the required files and no background
DefaultFlags ==
  [n \in FlagNames |-> IF n \in {"rig", "catalog", "strip_files"} THEN "x" ELSE ""]

\* mutant: FLAGS_strip_files is not checked
verifyInputs_NoStrip(f) ==
  /\ f["rig"] # ""
  /\ f["catalog"] # ""
  /\ IF f["background_catalog"] # "" THEN f["background_file"] # "" ELSE TRUE

\* verifyInputs (lines 189-196): TRUE when no CHECK_NE fails
verifyInputs(f) ==
  /\ f["rig"] # ""
  /\ f["catalog"] # ""
  /\ f["strip_files"] # ""
  /\ IF f["background_catalog"] # "" THEN f["background_file"] # "" ELSE TRUE

-----------------------------------------------------------------------------
(* Keys *)

keysOfInterest ==
  {"LEFT", "RIGHT", "W", "UP", "S", "DOWN", "D", "A", "C", "H", "M", "B", "SPACE"}

keysActiveOnlyOnKeyPress == {"C", "H", "M", "B", "SPACE"}

\* iteration order of std::set<char>: ascending character code
\* (' '=0x20, VK_LEFT=0x25, VK_UP=0x26, VK_RIGHT=0x27, VK_DOWN=0x28, 'A'..'W')
KeyOrder ==
  <<"SPACE", "LEFT", "UP", "RIGHT", "DOWN", "A", "B", "C", "D", "H", "M", "S", "W">>

RECURSIVE ScanKeys(_, _, _, _)
ScanKeys(i, K, depressed, active) ==
  IF i > Len(KeyOrder)
  THEN [activeKeys |-> active, depressedKeys |-> depressed]
  ELSE LET c == KeyOrder[i] IN
       IF c \in K
       THEN IF c \notin depressed \/ c \notin keysActiveOnlyOnKeyPress
            THEN ScanKeys(i + 1, K, depressed \cup {c}, Append(active, c))
            ELSE ScanKeys(i + 1, K, depressed, active)
       ELSE ScanKeys(i + 1, K, depressed \ {c}, active)

getAndUpdateActiveKeys(K, depressed) == ScanKeys(1, K, depressed, <<>>)

-----------------------------------------------------------------------------
(* Collaborators *)

\* VideoFile: front is the index of the oldest outstanding request (the next frame
\* readEnd returns); outstanding is the number of requests begun and not ended.
NewVideoFile(n) == [numFrames |-> n, front |-> 0, outstanding |-> 0, underflow |-> FALSE]

readBegin(v) == [v EXCEPT !.outstanding = @ + 1]

readEnd(v) ==
  IF v.outstanding = 0
  THEN [v EXCEPT !.underflow = TRUE]
  ELSE [v EXCEPT !.outstanding = @ - 1, !.front = (@ + 1) % v.numFrames]

getFront(v) == v.front

\* getVideoTimeMs(videoFile) = getFront() * (1000.f / FLAGS_fps), kept exact as the
\* fraction VideoTimeNum(v) / Fps
VideoTimeNum(v) == getFront(v) * 1000

\* (int)getVideoTimeMs(videoFile)
VideoTimeInt(v) == VideoTimeNum(v) \div Fps

\* Soundtrack: whether a file was loaded and whether it is playing; the position of
\* the audio device's clock is an input of each iteration (getElapsedMs)
NewSoundtrack(loaded) == [loaded |-> loaded, playing |-> FALSE]
SoundPlay(a) == [a EXCEPT !.playing = a.loaded]
SoundPause(a) == [a EXCEPT !.playing = FALSE]
SoundRestart(a) == [a EXCEPT !.playing = a.loaded]
isPlaying(a) == a.playing

\* MenuScreen
NewMenu == [isHidden |-> FALSE, fading |-> FALSE]
startFadeOut(m) == [m EXCEPT !.fading = TRUE]

\* mutant: the callback recenters and leaves pause as it is
exitMenuCallback_KeepPause(s) ==
  [s EXCEPT !.ev = Append(@, "recenter")]

\* menu.exitMenuCallback (lines 337-340)
exitMenuCallback(s) ==
  [s EXCEPT !.pause = FALSE, !.ev = Append(@, "recenter")]

\* menu.update(): a fade-out in progress finishes when fadeDone, and the menu then
\* hides itself and invokes the exit callback once
MenuUpdate(s, fadeDone) ==
  IF s.menu.fading /\ ~s.menu.isHidden /\ fadeDone
  THEN exitMenuCallback([s EXCEPT !.menu = [isHidden |-> TRUE, fading |-> FALSE],
                                  !.ev = Append(@, "exitMenu")])
  ELSE s

-----------------------------------------------------------------------------
(* One iteration of the main loop, as functions of the working state s *)

NoHist == [valid |-> FALSE, front |-> 0, elapsed |-> 0]
PauseEvent(s, t) == [valid |-> TRUE, front |-> getFront(s.videoFile), elapsed |-> t - s.startTime]

NoResume == [happened |-> FALSE, front |-> 0, elapsed |-> 0, paused |-> NoHist]
NoDrift == [ran |-> FALSE, front |-> 0, audioTimeMs |-> 0, elapsedTimeMs |-> 0,
            useAudio |-> FALSE, referenceTimeMs |-> 0, reset |-> FALSE,
            startBefore |-> 0, soundBefore |-> NewSoundtrack(FALSE)]
NoAdvance == [pause |-> TRUE, playing |-> FALSE, advanced |-> FALSE, peak |-> 0, front |-> 0]
NoPlayback == [pause |-> TRUE, started |-> FALSE, startTime |-> 0,
               soundtrack |-> NewSoundtrack(FALSE), videoFile |-> NewVideoFile(1),
               menu |-> NewMenu]
NoStatics == [pause |-> TRUE, started |-> FALSE, fade |-> 0, startTime |-> 0,
              Yaw |-> 0, Pos2 |-> 0, depressedKeys |-> {}]
NoRender == [subframes |-> -1, menuHidden |-> FALSE, pause |-> TRUE, Yaw |-> 0, Pos2 |-> 0]

\* the playback part of the working state: pause, started, the clock origin, the
\* soundtrack, the video with its requests, the menu
PlaybackPart(s) ==
  [pause |-> s.pause, started |-> s.started, startTime |-> s.startTime,
   soundtrack |-> s.soundtrack, videoFile |-> s.videoFile, menu |-> s.menu]

\* mutant: the clock restarts at the moment of the resume
ResumeOrigin_Now(v, t) == t

\* getCurrentTime() - std::chrono::milliseconds((int)getVideoTimeMs(videoFile))
\* (lines 392-393)
ResumeOrigin(v, t) == t - VideoTimeInt(v)

\* case ' ' (lines 385-400)
SpaceKey(s, t) ==
  IF s.pause
  THEN IF ~s.started
       THEN [s EXCEPT !.started = TRUE,
                      !.menu = startFadeOut(@),
                      !.ev = Append(@, "startFadeOut")]
       ELSE LET origin == ResumeOrigin(s.videoFile, t)
            IN [s EXCEPT !.pause = FALSE,
                         !.startTime = origin,
                         !.soundtrack = SoundPlay(@),
                         !.resume = [happened |-> TRUE, front |-> getFront(s.videoFile),
                                     elapsed |-> t - origin, paused |-> s.hist],
                         !.ev = Append(@, "resume")]
  ELSE [s EXCEPT !.pause = TRUE,
                 !.soundtrack = SoundPause(@),
                 !.hist = PauseEvent(s, t),
                 !.ev = Append(@, "pauseKey")]

\* mutant: recentering also restarts the clock and the soundtrack
ProcessKey_RecenterRestarts(s, key, t) ==
  CASE key = "LEFT" -> [s EXCEPT !.Yaw = @ + 1]
    [] key = "RIGHT" -> [s EXCEPT !.Yaw = @ - 1]
    [] key \in {"W", "UP", "S", "DOWN", "D", "A"} -> [s EXCEPT !.Pos2 = @ + 1]
    [] key = "C" -> [s EXCEPT !.ev = Append(@, "recenter"), !.startTime = t,
                              !.soundtrack = SoundRestart(@)]
    [] key = "SPACE" -> SpaceKey(s, t)
    [] key = "H" -> [s EXCEPT !.fade = IF @ # 0 THEN 0 ELSE kHeadboxFade]
    [] key = "B" -> [s EXCEPT !.scene.renderBackground = ~@]
    [] OTHER -> s

\* the switch of lines 358-407
ProcessKey(s, key, t) ==
  CASE key = "LEFT" -> [s EXCEPT !.Yaw = @ + 1]
    [] key = "RIGHT" -> [s EXCEPT !.Yaw = @ - 1]
    [] key \in {"W", "UP", "S", "DOWN", "D", "A"} -> [s EXCEPT !.Pos2 = @ + 1]
    [] key = "C" -> [s EXCEPT !.ev = Append(@, "recenter")]
    [] key = "SPACE" -> SpaceKey(s, t)
    [] key = "H" -> [s EXCEPT !.fade = IF @ # 0 THEN 0 ELSE kHeadboxFade]
    [] key = "B" -> [s EXCEPT !.scene.renderBackground = ~@]
    [] OTHER -> s

\* for (char key : activeKeys) (line 357)
RECURSIVE ProcessKeys(_, _, _)
ProcessKeys(s, keys, t) ==
  IF keys = <<>> THEN s ELSE ProcessKeys(ProcessKey(s, Head(keys), t), Tail(keys), t)

\* the whole loop over the active keys, with the playback state it leaves
KeyInput(s, keys, t) ==
  LET after == ProcessKeys(s, keys, t)
  IN [after EXCEPT !.afterKeys = PlaybackPart(after)]

\* mutant: the forced pause leaves the soundtrack alone
ForcePause_KeepAudio(s, hmdMounted, t) ==
  IF ~hmdMounted
  THEN [s EXCEPT !.pause = TRUE,
                 !.hist = IF s.pause THEN @ ELSE PauseEvent(s, t),
                 !.ev = Append(@, "forcePause")]
  ELSE s

\* lines 410-413
ForcePause(s, hmdMounted, t) ==
  IF ~hmdMounted
  THEN [s EXCEPT !.pause = TRUE,
                 !.soundtrack = SoundPause(@),
                 !.hist = IF s.pause THEN @ ELSE PauseEvent(s, t),
                 !.ev = Append(@, "forcePause")]
  ELSE s

\* mutant: no delay while the audio is inactive
DelayDecision_UnlessInactive(videoNum, referenceTimeMs, playing, audioTimeMs) ==
  IF videoNum > (referenceTimeMs + kMaxAudioLag) * Fps
  THEN playing /\ audioTimeMs # 0
  ELSE FALSE

\* mutant: a video more than kMaxVideoLag behind is realigned by holding the frame
DelayDecision_Realign(videoNum, referenceTimeMs, playing, audioTimeMs) ==
  IF videoNum > (referenceTimeMs + kMaxAudioLag) * Fps
  THEN ~playing \/ audioTimeMs # 0
  ELSE referenceTimeMs * Fps > videoNum + kMaxVideoLag * Fps

\* the delay decision of lines 449-457: video time is videoNum / Fps
DelayDecision(videoNum, referenceTimeMs, playing, audioTimeMs) ==
  IF videoNum > (referenceTimeMs + kMaxAudioLag) * Fps
  THEN ~playing \/ audioTimeMs # 0
  ELSE FALSE

\* mutant: the beginning of the video is not recognised
AtBeginning_Never(v) == FALSE

\* whether the video is at its beginning (line 435)
AtBeginning(v) == getFront(v) = 0

\* mutant: the wall clock is the reference whatever the soundtrack does
SyncAudioVideo_WallClock(s, elapsedMs, t) ==
  IF s.menu.isHidden /\ ~s.pause
  THEN IF AtBeginning(s.videoFile)
       THEN [s EXCEPT !.startTime = t,
                      !.soundtrack = SoundRestart(@),
                      !.delayNextFrame = FALSE,
                      !.drift = [NoDrift EXCEPT !.ran = TRUE, !.reset = TRUE,
                                                !.startBefore = s.startTime,
                                                !.soundBefore = s.soundtrack],
                      !.ev = Append(@, "restart")]
       ELSE LET audioTimeMs == elapsedMs
                elapsedTimeMs == t - s.startTime
                useAudioTimeAsReference == isPlaying(s.soundtrack)
                referenceTimeMs == elapsedTimeMs
            IN [s EXCEPT !.delayNextFrame =
                             DelayDecision(VideoTimeNum(s.videoFile), referenceTimeMs,
                                           isPlaying(s.soundtrack), audioTimeMs),
                         !.drift = [ran |-> TRUE, front |-> getFront(s.videoFile),
                                    audioTimeMs |-> audioTimeMs,
                                    elapsedTimeMs |-> elapsedTimeMs,
                                    useAudio |-> useAudioTimeAsReference,
                                    referenceTimeMs |-> referenceTimeMs,
                                    reset |-> FALSE,
                                    startBefore |-> s.startTime,
                                    soundBefore |-> s.soundtrack],
                         !.ev = Append(@, "drift")]
  ELSE [s EXCEPT !.delayNextFrame = FALSE]

\* lines 433-459; elapsedMs is what soundtrack.getElapsedMs() returns
SyncAudioVideo(s, elapsedMs, t) ==
  IF s.menu.isHidden /\ ~s.pause
  THEN IF AtBeginning(s.videoFile)
       THEN [s EXCEPT !.startTime = t,
                      !.soundtrack = SoundRestart(@),
                      !.delayNextFrame = FALSE,
                      !.drift = [NoDrift EXCEPT !.ran = TRUE, !.reset = TRUE,
                                                !.startBefore = s.startTime,
                                                !.soundBefore = s.soundtrack],
                      !.ev = Append(@, "restart")]
       ELSE LET audioTimeMs == elapsedMs
                elapsedTimeMs == t - s.startTime
                useAudioTimeAsReference == isPlaying(s.soundtrack)
                referenceTimeMs ==
                  IF useAudioTimeAsReference THEN audioTimeMs ELSE elapsedTimeMs
            IN [s EXCEPT !.delayNextFrame =
                             DelayDecision(VideoTimeNum(s.videoFile), referenceTimeMs,
                                           isPlaying(s.soundtrack), audioTimeMs),
                         !.drift = [ran |-> TRUE, front |-> getFront(s.videoFile),
                                    audioTimeMs |-> audioTimeMs,
                                    elapsedTimeMs |-> elapsedTimeMs,
                                    useAudio |-> useAudioTimeAsReference,
                                    referenceTimeMs |-> referenceTimeMs,
                                    reset |-> FALSE,
                                    startBefore |-> s.startTime,
                                    soundBefore |-> s.soundtrack],
                         !.ev = Append(@, "drift")]
  ELSE [s EXCEPT !.delayNextFrame = FALSE]

Max3(a, b, c) ==
  IF a >= b /\ a >= c THEN a ELSE IF b >= c THEN b ELSE c

\* mutant: the next request is begun before the current one is ended
AdvanceFrame_BeginFirst(s) ==
  IF ~s.delayNextFrame /\ ~s.pause /\ s.videoFile.numFrames > 1
  THEN LET begun == readBegin(s.videoFile)
           ended == readEnd(begun)
       IN [s EXCEPT !.scene.subframes = getFront(s.videoFile),
                    !.videoFile = ended,
                    !.advance = [pause |-> s.pause, playing |-> isPlaying(s.soundtrack),
                                 advanced |-> TRUE,
                                 peak |-> Max3(s.videoFile.outstanding, ended.outstanding,
                                               begun.outstanding),
                                 front |-> getFront(ended)],
                    !.ev = @ \o <<"destroyFrame", "readBegin", "readEnd">>]
  ELSE [s EXCEPT !.advance = [pause |-> s.pause, playing |-> isPlaying(s.soundtrack),
                              advanced |-> FALSE, peak |-> s.videoFile.outstanding,
                              front |-> getFront(s.videoFile)]]

\* mutant: the test of frames.size() > 1 is missing
AdvanceFrame_AnySize(s) ==
  IF ~s.delayNextFrame /\ ~s.pause
  THEN LET ended == readEnd(s.videoFile)
           begun == readBegin(ended)
       IN [s EXCEPT !.scene.subframes = getFront(s.videoFile),
                    !.videoFile = begun,
                    !.advance = [pause |-> s.pause, playing |-> isPlaying(s.soundtrack),
                                 advanced |-> TRUE,
                                 peak |-> Max3(s.videoFile.outstanding, ended.outstanding,
                                               begun.outstanding),
                                 front |-> getFront(begun)],
                    !.ev = @ \o <<"destroyFrame", "readEnd", "readBegin">>]
  ELSE [s EXCEPT !.advance = [pause |-> s.pause, playing |-> isPlaying(s.soundtrack),
                              advanced |-> FALSE, peak |-> s.videoFile.outstanding,
                              front |-> getFront(s.videoFile)]]

\* lines 461-466
AdvanceFrame(s) ==
  IF ~s.delayNextFrame /\ ~s.pause /\ s.videoFile.numFrames > 1
  THEN LET ended == readEnd(s.videoFile)
           begun == readBegin(ended)
       IN [s EXCEPT !.scene.subframes = getFront(s.videoFile),
                    !.videoFile = begun,
                    !.advance = [pause |-> s.pause, playing |-> isPlaying(s.soundtrack),
                                 advanced |-> TRUE,
                                 peak |-> Max3(s.videoFile.outstanding, ended.outstanding,
                                               begun.outstanding),
                                 front |-> getFront(begun)],
                    !.ev = @ \o <<"destroyFrame", "readEnd", "readBegin">>]
  ELSE [s EXCEPT !.advance = [pause |-> s.pause, playing |-> isPlaying(s.soundtrack),
                              advanced |-> FALSE, peak |-> s.videoFile.outstanding,
                              front |-> getFront(s.videoFile)]]

\* mutant: the scene is rendered behind the menu as well
RenderEyes_SceneToo(s) ==
  LET draw == IF s.menu.isHidden THEN <<"render.scene">>
                                 ELSE <<"render.scene", "render.menu">>
  IN [s EXCEPT !.ev = @ \o draw \o draw,
               !.render = [subframes |-> s.scene.subframes,
                           menuHidden |-> s.menu.isHidden, pause |-> s.pause,
                           Yaw |-> s.Yaw, Pos2 |-> s.Pos2]]

\* lines 468-503: one draw per eye
RenderEyes(s) ==
  LET draw == IF s.menu.isHidden THEN "render.scene" ELSE "render.menu"
  IN [s EXCEPT !.ev = @ \o <<draw, draw>>,
               !.render = [subframes |-> s.scene.subframes,
                           menuHidden |-> s.menu.isHidden, pause |-> s.pause,
                           Yaw |-> s.Yaw, Pos2 |-> s.Pos2]]

-----------------------------------------------------------------------------
(* The steps *)

NoLog == [kind |-> "none", visible |-> FALSE, hmdMounted |-> FALSE, activeKeys |-> <<>>,
          lost |-> {}, refired |-> {}, ev |-> <<>>, resume |-> NoResume, drift |-> NoDrift, advance |-> NoAdvance,
          delayNextFrame |-> FALSE, result |-> "none", render |-> NoRender,
          afterKeys |-> NoPlayback, before |-> NoPlayback, statics |-> NoStatics]

\* History of the physical presses of the edge-triggered keys, from one sample of
\* Platform.Key (K) to the next (K2), given the keys that fired in between:
\* a press is new when the key goes from up to down
Range(f) == {f[i] : i \in DOMAIN f}
NewPress(k, K, K2) == k \in K2 /\ k \notin K
\* presses that ended (key up again) without ever having fired
LostPresses(unf, K2) == {k \in unf : k \notin K2}
\* keys that fired again for a press that had already fired
Refired(unf, K, K2, firedKeys) ==
  {k \in firedKeys \cap keysActiveOnlyOnKeyPress : ~NewPress(k, K, K2) /\ k \notin unf}
UnfiredAfter(unf, K, K2, firedKeys) ==
  {k \in keysActiveOnlyOnKeyPress \cap K2 :
     (NewPress(k, K, K2) \/ k \in unf) /\ k \notin firedKeys}

\* the statics of the file and of MainLoop
Statics ==
  [pause |-> pause, started |-> started, fade |-> fade, startTime |-> startTime,
   Yaw |-> Yaw, Pos2 |-> Pos2, depressedKeys |-> depressedKeys]

\* what the statics and the session objects are at the top of an iteration
Working ==
  [pause |-> pause, started |-> started, fade |-> fade, startTime |-> startTime,
   Yaw |-> Yaw, Pos2 |-> Pos2, scene |-> scene, menu |-> menu, videoFile |-> videoFile,
   soundtrack |-> soundtrack, hist |-> hist, ev |-> <<>>, resume |-> NoResume,
   drift |-> NoDrift, advance |-> NoAdvance, delayNextFrame |-> FALSE,
   render |-> NoRender, afterKeys |-> NoPlayback]

\* mutant: the eyes are rendered before the frame step
VisibleBody_RenderFirst(s, activeKeys, hmdMounted, fadeDone, elapsedMs, t) ==
  AdvanceFrame(
    RenderEyes(
      SyncAudioVideo(
        MenuUpdate(
          ForcePause(KeyInput(s, activeKeys, t), hmdMounted, t),
          fadeDone),
        elapsedMs, t)))

\* the body of if (sessionStatus.IsVisible), lines 353-503
VisibleBody(s, activeKeys, hmdMounted, fadeDone, elapsedMs, t) ==
  RenderEyes(
    AdvanceFrame(
      SyncAudioVideo(
        MenuUpdate(
          ForcePause(KeyInput(s, activeKeys, t), hmdMounted, t),
          fadeDone),
        elapsedMs, t)))

\* mutant: only the caller's retryCreate decides
ReturnValue_RetryOnly(rc, result) == rc

\* Done: ... return retryCreate || (result == ovrError_DisplayLost) (lines 542-554)
ReturnValue(rc, result) == rc \/ result = "displayLost"

\* Platform.Run(MainLoop) calls MainLoop again while it returns true
AfterReturn(ret) == IF ret THEN "run" ELSE "exit"

RetText(ret) == IF ret THEN "true" ELSE "false"

\* the objects of the block of lines 296-540 before it is entered and after it is left
NoScene == [renderBackground |-> FALSE, subframes |-> -1]
NoSoundtrack == NewSoundtrack(FALSE)

\* The keys that may be held in an iteration: the accumulators stay within the bounds
Holdable(held) ==
  /\ "LEFT" \in held => Yaw < MaxYaw
  /\ "RIGHT" \in held => Yaw > -MaxYaw
  /\ Pos2 + Cardinality(held \cap {"W", "UP", "S", "DOWN", "D", "A"}) <= MaxPos

\* for (int readahead = 0; readahead < 3; ++readahead) videoFile.readBegin(scene)
RECURSIVE Readahead(_, _)
Readahead(v, n) == IF n = 0 THEN v ELSE Readahead(readBegin(v), n - 1)

RECURSIVE Repeat(_, _)
Repeat(x, n) == IF n = 0 THEN <<>> ELSE <<x>> \o Repeat(x, n - 1)

\* lines 314-323: the video and its first requests, with the calls made
FirstLoads(n) ==
  IF n = 1
  THEN [videoFile |-> readEnd(readBegin(NewVideoFile(1))), subframes |-> 0,
        ev |-> <<"readBegin", "readEnd">>]
  ELSE [videoFile |-> Readahead(NewVideoFile(n), ReadaheadDepth), subframes |-> -1,
        ev |-> Repeat("readBegin", ReadaheadDepth)]

\* lines 303-309: the background geometry is loaded from a file of its own
BackgroundLoad(f) ==
  IF f["background_catalog"] # "" THEN <<"loadBackground">> ELSE <<>>

\* the block of lines 296-340: the scene, the video and its first requests, the
\* soundtrack, the menu
SessionObjects(loaded) ==
  /\ scene' = [renderBackground |-> FALSE,
               subframes |-> FirstLoads(videoFile.numFrames).subframes]
  /\ videoFile' = FirstLoads(videoFile.numFrames).videoFile
  /\ soundtrack' = NewSoundtrack(loaded)
  /\ menu' = NewMenu
  /\ hist' = NoHist

\* leaving the block destroys them
SessionObjectsGone ==
  /\ scene' = NoScene
  /\ videoFile' = NewVideoFile(videoFile.numFrames)
  /\ soundtrack' = NoSoundtrack
  /\ menu' = NewMenu
  /\ hist' = NoHist

\* main from its entry to the call of Platform.Run (lines 557-576)
Main(init) ==
  /\ pc = "main"
  /\ pc' = IF verifyInputs(flags) /\ init = "ok" THEN "run" ELSE "fatal"
  /\ log' = [NoLog EXCEPT !.kind = IF ~verifyInputs(flags) THEN "checkFail"
                                   ELSE IF init = "ok" THEN "main" ELSE init]
  /\ UNCHANGED <<flags, retryCreate, returned, now, Key, depressedKeys, startTime, pause,
                 started, fade, Yaw, Pos2, scene, menu, videoFile, soundtrack, hist,
                 unfired>>

\* ovr_Initialize and Platform.InitWindow succeed or fail (lines 569-574)
Inits == {"ok", "initializeFail", "windowFail"}

\* MainLoop from its entry to the first test of the while loop (lines 233-342)
MainLoopEnter(rc, setup, loaded) ==
  /\ pc = "run"
  /\ retryCreate' = rc
  /\ UNCHANGED <<flags, now, Key, depressedKeys, startTime, pause, started, fade, Yaw, Pos2,
                 unfired>>
  /\ IF setup = "ok" /\ verifyInputs(flags)
     THEN /\ pc' = "loop"
          /\ returned' = "none"
          /\ SessionObjects(loaded)
          /\ log' = [NoLog EXCEPT !.kind = "enter",
                                  !.ev = BackgroundLoad(flags) \o
                                         FirstLoads(videoFile.numFrames).ev]
     ELSE IF setup = "ok"
     THEN /\ pc' = "fatal"
          /\ returned' = "none"
          /\ log' = [NoLog EXCEPT !.kind = "checkFail"]
          /\ UNCHANGED <<scene, videoFile, soundtrack, menu, hist>>
     ELSE /\ UNCHANGED <<scene, videoFile, soundtrack, menu, hist>>
          /\ log' = [NoLog EXCEPT !.kind = setup]
          /\ IF setup \in {"textureFail", "mirrorFail", "mirrorLost"} /\ ~rc
             THEN pc' = "fatal" /\ returned' = "none"
             ELSE LET result == IF setup = "mirrorLost" THEN "displayLost"
                                ELSE IF setup = "mirrorFail" THEN "error" ELSE "success"
                      ret == IF setup = "createFail" THEN rc ELSE ReturnValue(rc, result)
                  IN /\ pc' = AfterReturn(ret)
                     /\ returned' = RetText(ret)

Setups == {"ok", "createFail", "deviceFail", "textureFail", "mirrorFail", "mirrorLost"}

\* while (Platform.HandleMessages()) fails: the window was closed (line 343)
TickClosed ==
  /\ pc = "loop"
  /\ pc' = AfterReturn(ReturnValue(retryCreate, "success"))
  /\ returned' = RetText(ReturnValue(retryCreate, "success"))
  /\ log' = [NoLog EXCEPT !.kind = "closed"]
  /\ SessionObjectsGone
  /\ UNCHANGED <<flags, retryCreate, now, Key, depressedKeys, startTime, pause, started,
                 fade, Yaw, Pos2, unfired>>

\* mutant: the quit request leaves retryCreate as the caller passed it
TickQuit_KeepRetry ==
  /\ pc = "loop"
  /\ pc' = AfterReturn(ReturnValue(retryCreate, "success"))
  /\ returned' = RetText(ReturnValue(retryCreate, "success"))
  /\ log' = [NoLog EXCEPT !.kind = "quit", !.statics = Statics]
  /\ SessionObjectsGone
  /\ UNCHANGED <<flags, retryCreate, now, Key, depressedKeys, startTime, pause, started,
                 fade, Yaw, Pos2, unfired>>

\* sessionStatus.ShouldQuit (lines 346-350), then Done
TickQuit ==
  /\ pc = "loop"
  /\ retryCreate' = FALSE
  /\ pc' = AfterReturn(ReturnValue(FALSE, "success"))
  /\ returned' = RetText(ReturnValue(FALSE, "success"))
  /\ log' = [NoLog EXCEPT !.kind = "quit", !.statics = Statics]
  /\ SessionObjectsGone
  /\ UNCHANGED <<flags, now, Key, depressedKeys, startTime, pause, started,
                 fade, Yaw, Pos2, unfired>>

\* mutant: the keys are scanned although the session is not visible
TickInvisible_Scans(held, dt) ==
  /\ pc = "loop"
  /\ now + dt <= MaxTime
  /\ now' = now + dt
  /\ Key' = held
  /\ depressedKeys' = getAndUpdateActiveKeys(held, depressedKeys).depressedKeys
  /\ unfired' = UnfiredAfter(unfired, Key, held, {})
  /\ log' = [NoLog EXCEPT !.kind = "tick", !.lost = LostPresses(unfired, held),
                          !.refired = Refired(unfired, Key, held, {}),
                          !.before = PlaybackPart(Working), !.statics = Statics]
  /\ UNCHANGED <<pc, flags, retryCreate, returned, startTime, pause,
                 started, fade, Yaw, Pos2, scene, menu, videoFile, soundtrack, hist>>

\* an iteration with sessionStatus.IsVisible false: only the mirror blit (lines 530-538)
TickInvisible(held, dt) ==
  /\ pc = "loop"
  /\ now + dt <= MaxTime
  /\ now' = now + dt
  /\ Key' = held
  /\ unfired' = UnfiredAfter(unfired, Key, held, {})
  /\ log' = [NoLog EXCEPT !.kind = "tick", !.lost = LostPresses(unfired, held),
                          !.refired = Refired(unfired, Key, held, {}),
                          !.before = PlaybackPart(Working), !.statics = Statics]
  /\ UNCHANGED <<pc, flags, retryCreate, returned, depressedKeys, startTime, pause,
                 started, fade, Yaw, Pos2, scene, menu, videoFile, soundtrack, hist>>

\* an iteration with sessionStatus.IsVisible true (lines 352-528)
TickVisible(held, hmdMounted, dt, fadeDone, elapsedMs, submit) ==
  /\ pc = "loop"
  /\ now + dt <= MaxTime
  /\ Holdable(held)
  /\ \E t \in {now + dt}, scan \in {getAndUpdateActiveKeys(held, depressedKeys)} :
     \E s \in {VisibleBody(Working, scan.activeKeys, hmdMounted, fadeDone, elapsedMs, t)} :
        /\ now' = t
        /\ Key' = held
        /\ depressedKeys' = scan.depressedKeys
        /\ pause' = s.pause
        /\ started' = s.started
        /\ fade' = s.fade
        /\ startTime' = s.startTime
        /\ Yaw' = s.Yaw
        /\ Pos2' = s.Pos2
        /\ unfired' = UnfiredAfter(unfired, Key, held, Range(scan.activeKeys))
        /\ log' = [kind |-> "tick", visible |-> TRUE, hmdMounted |-> hmdMounted,
                   activeKeys |-> scan.activeKeys,
                   lost |-> LostPresses(unfired, held),
                   refired |-> Refired(unfired, Key, held, Range(scan.activeKeys)),
                   ev |-> Append(s.ev, "submit"), resume |-> s.resume, drift |-> s.drift,
                   advance |-> s.advance, delayNextFrame |-> s.delayNextFrame,
                   result |-> submit, render |-> s.render, afterKeys |-> s.afterKeys,
                   before |-> PlaybackPart(Working), statics |-> NoStatics]
        /\ UNCHANGED <<flags, retryCreate>>
        /\ IF submit = "success"
           THEN /\ scene' = s.scene
                /\ menu' = s.menu
                /\ videoFile' = s.videoFile
                /\ soundtrack' = s.soundtrack
                /\ hist' = s.hist
                /\ UNCHANGED <<pc, returned>>
           ELSE /\ SessionObjectsGone
                /\ pc' = AfterReturn(ReturnValue(retryCreate, submit))
                /\ returned' = RetText(ReturnValue(retryCreate, submit))

-----------------------------------------------------------------------------
(* Specifications *)

InitOf(commandLines) ==
  /\ pc = "main"
  /\ flags \in commandLines
  /\ retryCreate = FALSE
  /\ returned = "none"
  /\ now = 0
  /\ Key = {}
  /\ depressedKeys = {}
  /\ startTime = 0
  /\ pause = TRUE
  /\ started = FALSE
  /\ fade = kHeadboxFade
  /\ Yaw = 0
  /\ Pos2 = 0
  /\ scene = NoScene
  /\ menu = NewMenu
  /\ \E n \in FrameCounts : videoFile = NewVideoFile(n)
  /\ soundtrack = NoSoundtrack
  /\ hist = NoHist
  /\ unfired = {}
  /\ log = NoLog

\* a fade-out can only finish while one is in progress, and the audio device's clock
\* is only read when a soundtrack was loaded
FadeInputs == IF menu.fading THEN BOOLEAN ELSE {FALSE}
AudioInputs == IF soundtrack.loaded THEN AudioTimes ELSE {0}

\* the steps of the program for given families of inputs
NextOf(keyInputs, rcs, setups, results) ==
  \/ \E init \in Inits : Main(init)
  \/ \E rc \in rcs, setup \in setups, loaded \in AudioChoices :
       MainLoopEnter(rc, setup, loaded)
  \/ TickClosed
  \/ TickQuit
  \/ \E held \in keyInputs, dt \in TickDurations :
       TickInvisible(held, dt)
  \/ \E held \in keyInputs, hmdMounted \in BOOLEAN, dt \in TickDurations,
        fadeDone \in FadeInputs, elapsedMs \in AudioInputs, submit \in results :
       TickVisible(held, hmdMounted, dt, fadeDone, elapsedMs, submit)

\* the program started with the required files on the command line
Init == InitOf({DefaultFlags})

\* playback: the pause key only; Platform.Run passes retryCreate = true
PlaybackKeys == {{}, {"SPACE"}}
PlaybackRetry == {TRUE}
PlaybackSetups == {"ok", "createFail"}
PlaybackResults == {"success", "displayLost"}
Next == NextOf(PlaybackKeys, PlaybackRetry, PlaybackSetups, PlaybackResults)

Spec == Init /\ [][Next]_vars

\* device failures: MainLoop called with either value of retryCreate, every way the
\* set-up can fail, and ovr_SubmitFrame failing with display lost or another error
SubmitResults == {"success", "displayLost", "error"}
DeviceTickDurations == {25}

DeviceNext ==
  \/ \E init \in Inits : Main(init)
  \/ \E rc \in BOOLEAN, setup \in Setups, loaded \in AudioChoices :
       MainLoopEnter(rc, setup, loaded)
  \/ TickClosed
  \/ TickQuit
  \/ \E held \in PlaybackKeys, dt \in DeviceTickDurations :
       TickInvisible(held, dt)
  \/ \E held \in PlaybackKeys, hmdMounted \in BOOLEAN, dt \in DeviceTickDurations,
        fadeDone \in FadeInputs, elapsedMs \in AudioInputs, submit \in SubmitResults :
       TickVisible(held, hmdMounted, dt, fadeDone, elapsedMs, submit)

SpecDevice == Init /\ [][DeviceNext]_vars

\* keys: every key of interest, alone and together with others, in a session with a
\* soundtrack; iterations a fixed time apart, no device failure
KeySets == {{}, {"SPACE"}, {"LEFT", "C"}, {"RIGHT", "H"}, {"W", "B"}, {"S", "M"},
            {"UP"}, {"DOWN"}, {"D"}, {"A"}, {"SPACE", "LEFT", "H"}}
KeyTickDurations == {25}
KeyAudioTimes == {0, 100}

KeysNext ==
  \/ Main("ok")
  \/ MainLoopEnter(TRUE, "ok", TRUE)
  \/ TickClosed
  \/ TickQuit
  \/ \E held \in KeySets, dt \in KeyTickDurations :
       TickInvisible(held, dt)
  \/ \E held \in KeySets, hmdMounted \in BOOLEAN, dt \in KeyTickDurations,
        fadeDone \in FadeInputs, elapsedMs \in KeyAudioTimes :
       TickVisible(held, hmdMounted, dt, fadeDone, elapsedMs, "success")

SpecKeys == Init /\ [][KeysNext]_vars

\* start-up: any command line, then playback without device failures
StartupSetups == {"ok"}
StartupResults == {"success"}
StartupNext == NextOf(PlaybackKeys, PlaybackRetry, StartupSetups, StartupResults)

SpecStartup == InitOf(AllFlags) /\ [][StartupNext]_vars

-----------------------------------------------------------------------------
(* Vocabulary of the properties *)

Has(ev, x) == \E i \in DOMAIN ev : ev[i] = x
Count(ev, x) == Cardinality({i \in DOMAIN ev : ev[i] = x})
Fired(k) == Has(log.activeKeys, k)

\* PlaybackState of the data model: MenuVisible while the menu is not hidden,
\* otherwise Paused or Playing by the pause flag
PlaybackStateOf(m, p) ==
  IF ~m.isHidden THEN "MenuVisible" ELSE IF p THEN "Paused" ELSE "Playing"
PlaybackState == PlaybackStateOf(menu, pause)

InTick == log.kind = "tick"
VisibleTick == InTick /\ log.visible
LossTick == InTick /\ (~log.visible \/ ~log.hmdMounted)

IsVideoCall(x) == x \in {"destroyFrame", "readEnd", "readBegin"}
VideoCalls(ev) == SelectSeq(ev, IsVideoCall)

-----------------------------------------------------------------------------
\* the playback state at the top of the last iteration
StateBefore == PlaybackStateOf(log.before.menu, log.before.pause)

\* C1: across every iteration of the loop the playback state stays as it is or moves
\* along MenuVisible->Playing, Playing->Paused, Paused->Playing, or to Paused in an
\* iteration where the headset is not mounted or the session not visible.
C1_Edges ==
  (InTick /\ pc = "loop") =>
     \/ PlaybackState = StateBefore
     \/ StateBefore = "MenuVisible" /\ PlaybackState = "Playing"
     \/ StateBefore = "Playing" /\ PlaybackState = "Paused"
     \/ StateBefore = "Paused" /\ PlaybackState = "Playing"
     \/ PlaybackState = "Paused" /\ LossTick

\* the menu has just closed into Playing in an iteration with the headset off
C1_Witness ==
  /\ pc = "loop" /\ VisibleTick /\ ~log.hmdMounted
  /\ Has(log.ev, "exitMenu") /\ PlaybackState = "Playing"

\* C2: in a session on a multi-frame video the outstanding requests never exceed the
\* depth 3, at the start, inside an iteration and after it; readEnd is never called with
\* none outstanding; after every iteration exactly 3 are outstanding; an iteration that
\* advances makes exactly the calls destroyFrame, readEnd, readBegin, in that order,
\* and one that does not advance makes none of them.
C2_Readahead ==
  (log.kind \in {"enter", "tick"} /\ videoFile.numFrames > 1) =>
     /\ ~videoFile.underflow
     /\ log.advance.peak <= ReadaheadDepth
     /\ pc = "loop" => videoFile.outstanding = ReadaheadDepth
     /\ InTick =>
          VideoCalls(log.ev) = IF log.advance.advanced
                               THEN <<"destroyFrame", "readEnd", "readBegin">>
                               ELSE <<>>

\* an iteration has advanced a multi-frame video past its first frames
C2_Witness ==
  /\ pc = "loop" /\ InTick /\ log.advance.advanced
  /\ videoFile.numFrames > 1 /\ getFront(videoFile) = 3
  /\ videoFile.outstanding = ReadaheadDepth

\* C3: in a session on a single-frame video the start makes exactly one readBegin and
\* one readEnd, and no iteration makes a video call, advances or changes the frame,
\* whatever keys are pressed and whether paused or playing.
C3_SingleFrame ==
  (log.kind \in {"enter", "tick"} /\ videoFile.numFrames = 1) =>
     /\ log.kind = "enter" => log.ev = <<"readBegin", "readEnd">>
     /\ InTick => VideoCalls(log.ev) = <<>> /\ ~log.advance.advanced
     /\ ~videoFile.underflow
     /\ pc = "loop" => /\ videoFile.outstanding = 0
                       /\ getFront(videoFile) = 0
                       /\ scene.subframes = 0

\* a single-frame session is playing with the menu hidden, and was so at the frame step
C3_Witness ==
  /\ pc = "loop" /\ VisibleTick /\ videoFile.numFrames = 1
  /\ PlaybackState = "Playing" /\ ~log.advance.pause /\ ~log.delayNextFrame
  /\ log.drift.ran

\* C4: every physical press of an edge-triggered key (C, H, M, B, space) fires its action
\* exactly once, however long the key is held and whether or not the session is visible
\* meanwhile: no press ends without having fired and none fires twice; and in every
\* processed iteration each level-triggered key fires once if it is held and not
\* otherwise.
C4_OncePerPress ==
  InTick =>
    /\ log.lost = {}
    /\ log.refired = {}
    /\ log.visible =>
         \A k \in keysOfInterest \ keysActiveOnlyOnKeyPress :
           Count(log.activeKeys, k) = IF k \in Key THEN 1 ELSE 0

\* the drift decision of the last iteration compared a video time ahead of the
\* reference by more than kMaxAudioLag
OneTick == CHOOSE d \in TickDurations : \A e \in TickDurations : e <= d
Compared == VisibleTick /\ log.drift.ran /\ log.drift.front # 0
Ahead == log.drift.front * 1000 > (log.drift.referenceTimeMs + kMaxAudioLag) * Fps
Behind == log.drift.referenceTimeMs * Fps > log.drift.front * 1000 + kMaxVideoLag * Fps

\* C5 as claimed: with the video ahead of the reference by more than 5 ms the advance is
\* delayed, unless the audio is inactive or its elapsed time is exactly zero, and then
\* delay = false.
C5_AsClaimed ==
  (Compared /\ Ahead) =>
     (log.delayNextFrame <=> ~(~log.drift.useAudio \/ log.drift.audioTimeMs = 0))

\* C5 amended: with the video ahead of the reference by more than 5 ms the advance is
\* delayed (and no frame is advanced), unless the audio is playing and its elapsed time
\* is exactly zero, and then delay = false; with the audio inactive the advance is
\* delayed.  Video time 200 ms against an audio reference of 100 ms gives delay = true.
C5_Delay ==
  (Compared /\ Ahead) =>
     /\ log.delayNextFrame <=> (~log.drift.useAudio \/ log.drift.audioTimeMs # 0)
     /\ log.delayNextFrame => ~log.advance.advanced
     /\ (log.drift.front * 1000 = 200 * Fps /\ log.drift.useAudio
          /\ log.drift.referenceTimeMs = 100) => log.delayNextFrame

\* video time 200 ms, audio playing at 100 ms: delayed
C5_Witness ==
  /\ Compared /\ Ahead /\ log.drift.front * 1000 = 200 * Fps
  /\ log.drift.useAudio /\ log.drift.audioTimeMs = 100 /\ log.drift.referenceTimeMs = 100
  /\ log.delayNextFrame /\ ~log.advance.advanced

\* C6: with the video not ahead of the reference by more than 5 ms (within the band, or
\* behind by any amount) the advance is not delayed, the clock origin and the soundtrack
\* are left as they were, and a multi-frame video advances by exactly one frame.
C6_NoDelay ==
  (Compared /\ ~Ahead) =>
     /\ ~log.delayNextFrame
     /\ startTime = log.drift.startBefore
     /\ ~Has(log.ev, "restart")
     /\ pc = "loop" => soundtrack = log.drift.soundBefore
     /\ videoFile.numFrames > 1 =>
          /\ log.advance.advanced
          /\ Count(log.ev, "readEnd") = 1
          /\ log.advance.front = (log.drift.front + 1) % videoFile.numFrames

\* the video is more than 90 ms behind an audio reference and advances one frame
C6_Witness ==
  /\ Compared /\ Behind /\ log.drift.useAudio /\ pc = "loop"
  /\ log.advance.advanced /\ getFront(videoFile) = log.drift.front + 1

\* C7: when the drift step runs (playing, menu hidden) with the front frame index 0,
\* the clock origin becomes the current time (elapsed 0), the soundtrack is restarted,
\* and the advance is not delayed: a multi-frame video advances.
C7_Restart ==
  (VisibleTick /\ log.drift.ran /\ log.drift.front = 0) =>
     /\ log.drift.reset
     /\ now - startTime = 0
     /\ Count(log.ev, "restart") = 1
     /\ pc = "loop" => soundtrack.playing = soundtrack.loaded
     /\ ~log.delayNextFrame
     /\ videoFile.numFrames > 1 => log.advance.advanced

\* the video has looped back to frame 0 and the clock, set earlier, is reset
C7_Witness ==
  /\ VisibleTick /\ log.drift.ran /\ log.drift.front = 0 /\ log.drift.reset
  /\ log.drift.startBefore # now /\ startTime = now
  /\ pc = "loop" /\ soundtrack.playing /\ log.advance.advanced

Abs(x) == IF x < 0 THEN -x ELSE x

\* a pause of this session (by the key or forced) has been resumed by the key in the
\* last iteration
Resumed == VisibleTick /\ log.resume.happened /\ log.resume.paused.valid

\* C8 as claimed: the elapsed time of the clock right after a resume equals its elapsed
\* time at the moment of the pause, within one tick.
C8_AsClaimed ==
  Resumed => Abs(log.resume.elapsed - log.resume.paused.elapsed) <= OneTick

\* C8 amended: a resume sets the clock from the video position, not from the elapsed
\* time at the pause: right after a resume by the key the elapsed time is the video time
\* of the front frame in whole milliseconds, floor(front * 1000 / fps), and for a pause
\* and resume within one session that front frame is the one at the moment of the pause.
C8_ResumeFromVideoPosition ==
  (VisibleTick /\ log.resume.happened) =>
     /\ log.resume.elapsed = (log.resume.front * 1000) \div Fps
     /\ log.resume.paused.valid => log.resume.front = log.resume.paused.front

\* a resume at frame 4 (133 ms) of a pause taken when the clock showed something else
C8_Witness ==
  /\ Resumed /\ log.resume.front = 4 /\ log.resume.elapsed = 133
  /\ log.resume.paused.front = 4 /\ log.resume.paused.elapsed # 133

\* C9 as claimed: in every iteration in which the headset is not mounted or the session
\* is not visible, playback is paused, the soundtrack is not playing, and no video frame
\* advances.
C9_LossForcesPause ==
  LossTick => pause /\ ~soundtrack.playing /\ ~log.advance.advanced

\* C10 as claimed: in every session, while the menu is visible a press of space starts
\* the fade-out of the menu, and when the menu has closed the state is Playing with the
\* tracking origin recentered.
C10_ConfirmStartsFade ==
  (VisibleTick /\ pc = "loop" /\ ~log.before.menu.isHidden) =>
     /\ (~log.before.menu.fading /\ Fired("SPACE")) => (menu.fading \/ menu.isHidden)
     /\ menu.isHidden => (PlaybackState = "Playing" /\ Has(log.ev, "recenter"))

\* C11: the iteration that observes ShouldQuit ends the loop before anything else of
\* that iteration: no key is scanned or processed, no video call and no render is made,
\* pause, started, fade, the clock origin, yaw/position and the held keys are left as
\* they were; MainLoop returns false and is not called again, so no step follows (the
\* loop is not re-entered and no readBegin/readEnd is issued).
C11_QuitEndsLoop ==
  /\ log.kind = "quit" =>
       /\ pc = "exit" /\ returned = "false" /\ ~retryCreate
       /\ log.ev = <<>> /\ log.activeKeys = <<>>
       /\ log.statics = Statics
       /\ videoFile.outstanding = 0
  /\ pc = "exit" => ~ENABLED Next

\* quit was observed while playing with the space key still held down
C11_Witness ==
  /\ log.kind = "quit" /\ pc = "exit" /\ returned = "false"
  /\ ~pause /\ started /\ "SPACE" \in Key /\ now > 0

\* C12: every drift comparison takes as its reference the audio elapsed time exactly
\* when the soundtrack is playing at that moment, and otherwise the wall-clock time
\* elapsed since the clock origin; a session without a loaded soundtrack (none
\* configured, or the load failed) still enters the loop and all its comparisons use
\* the wall clock.
C12_Reference ==
  /\ log.kind = "enter" => pc = "loop"
  /\ Compared =>
       /\ log.drift.useAudio <=> log.drift.soundBefore.playing
       /\ log.drift.elapsedTimeMs = now - log.drift.startBefore
       /\ log.drift.referenceTimeMs = IF log.drift.soundBefore.playing
                                      THEN log.drift.audioTimeMs
                                      ELSE log.drift.elapsedTimeMs
       /\ ~log.drift.soundBefore.loaded =>
            /\ ~log.drift.useAudio
            /\ log.drift.referenceTimeMs = now - log.drift.startBefore

\* a comparison in a session without a soundtrack, against 40 ms of wall clock
C12_Witness ==
  /\ Compared /\ pc = "loop" /\ ~soundtrack.loaded /\ ~log.drift.useAudio
  /\ log.drift.referenceTimeMs = 40 /\ now - startTime = 40

\* the last step was a call or an iteration of MainLoop ended by a failing device step
SubmitLost == InTick /\ log.result = "displayLost"
SubmitError == InTick /\ log.result = "error"
SetupFailed == log.kind \in Setups \ {"ok"}

\* C13 as claimed: MainLoop returns true when the submission fails with display lost,
\* whatever retryCreate was; it returns the caller's retryCreate when the creation of
\* the session or any other device step fails; it returns false when quit was requested.
C13_AsClaimed ==
  /\ SubmitLost => returned = "true"
  /\ (SetupFailed \/ SubmitError) => returned = RetText(retryCreate)
  /\ log.kind = "quit" => returned = "false"

\* C13 amended: MainLoop returns true when the submission fails with display lost,
\* whatever retryCreate was; it returns the caller's retryCreate when ovr_Create,
\* InitDevice or the submission (with another error) fails; when the creation of an eye
\* texture or of the mirror texture fails it returns true if retryCreate was true and
\* otherwise does not return: the process is aborted; it returns false when quit was
\* requested.
C13_Return ==
  /\ SubmitLost => returned = "true"
  /\ (log.kind \in {"createFail", "deviceFail"} \/ SubmitError) =>
       returned = RetText(retryCreate)
  /\ log.kind \in {"textureFail", "mirrorFail", "mirrorLost"} =>
       IF retryCreate THEN returned = "true" /\ pc = "run"
                      ELSE returned = "none" /\ pc = "fatal"
  /\ log.kind = "quit" => returned = "false"

\* the submission failed with display lost in a call made with retryCreate false
C13_Witness ==
  /\ SubmitLost /\ ~retryCreate /\ returned = "true" /\ pc = "run" /\ now > 0

\* the command line lacks a required value
Missing(n) == flags[n] = ""
BadCommandLine ==
  \/ Missing("rig") \/ Missing("catalog") \/ Missing("strip_files")
  \/ ~Missing("background_catalog") /\ Missing("background_file")

\* C14: with rig, catalog or strip_files empty, or background_catalog given without
\* background_file, the program aborts at start-up: MainLoop is never called, so no
\* session is created, nothing is loaded and the loop is never entered.
C14_FatalStartup ==
  BadCommandLine =>
     /\ pc \in {"main", "fatal"}
     /\ log.kind \in {"none", "checkFail"}
     /\ returned = "none" /\ now = 0
     /\ scene = NoScene /\ soundtrack = NoSoundtrack /\ videoFile.outstanding = 0

\* a background catalog without its file has aborted the start-up
C14_Witness ==
  /\ pc = "fatal" /\ log.kind = "checkFail"
  /\ ~Missing("rig") /\ ~Missing("catalog") /\ ~Missing("strip_files")
  /\ ~Missing("background_catalog") /\ Missing("background_file")

\* the step of an iteration a recorded event belongs to: 1 key processing, forced pause
\* and menu update, 2 drift decision, 3 frame retire/advance, 4 eye rendering, 5 submission
StepOf(x) ==
  CASE x \in {"startFadeOut", "resume", "pauseKey", "recenter", "forcePause", "exitMenu"} -> 1
    [] x \in {"restart", "drift"} -> 2
    [] IsVideoCall(x) -> 3
    [] x \in {"render.scene", "render.menu"} -> 4
    [] OTHER -> 5

\* C15: in every visible iteration the recorded steps come in the order key processing
\* and forced pause, drift decision, frame retire/advance, rendering; the drift decision
\* and the frame step see the pause and menu state left by the input step, and the
\* render uses the frame, the menu state and the yaw/position resolved earlier in the
\* same iteration.
C15_StepOrder ==
  VisibleTick =>
     /\ \A i, j \in DOMAIN log.ev : i < j => StepOf(log.ev[i]) <= StepOf(log.ev[j])
     /\ log.drift.ran <=> (log.render.menuHidden /\ ~log.render.pause)
     /\ log.advance.pause = log.render.pause
     /\ log.advance.advanced <=>
          (~log.delayNextFrame /\ ~log.render.pause /\ videoFile.numFrames > 1)
     /\ log.advance.advanced =>
          log.render.subframes = (log.advance.front + videoFile.numFrames - 1)
                                   % videoFile.numFrames
     /\ log.render.pause = pause /\ log.render.Yaw = Yaw /\ log.render.Pos2 = Pos2
     /\ pc = "loop" => /\ log.render.subframes = scene.subframes
                       /\ log.render.menuHidden = menu.isHidden

\* an iteration resumed by the key, compared the clocks, advanced to frame 5 and
\* rendered frame 4
C15_Witness ==
  /\ VisibleTick /\ pc = "loop" /\ Has(log.ev, "resume") /\ Has(log.ev, "drift")
  /\ log.advance.advanced /\ log.advance.front = 5 /\ log.render.subframes = 4
  /\ Count(log.ev, "render.scene") = 2

MenuDraws == Count(log.ev, "render.menu")
SceneRenders == Count(log.ev, "render.scene")

\* C16 as claimed: every iteration makes exactly two render submissions, one per eye:
\* two menu draws when the menu is not hidden, two scene renders when it is hidden.
C16_AsClaimed ==
  InTick =>
     /\ MenuDraws + SceneRenders = 2
     /\ pc = "loop" => IF menu.isHidden THEN SceneRenders = 2 ELSE MenuDraws = 2

\* C16 amended: every iteration in which the session is visible makes exactly two render
\* submissions, one per eye: two menu draws when the menu is not hidden, two scene renders
\* when it is hidden (playing or paused), never both kinds; an iteration in which the
\* session is not visible, and the one that observes the quit request, render nothing.
C16_Renders ==
  /\ VisibleTick =>
       /\ MenuDraws + SceneRenders = 2
       /\ IF log.render.menuHidden THEN SceneRenders = 2 ELSE MenuDraws = 2
       /\ pc = "loop" => log.render.menuHidden = menu.isHidden
  /\ ((InTick /\ ~log.visible) \/ log.kind \in {"quit", "closed"}) =>
       MenuDraws + SceneRenders = 0

\* a paused session with the menu hidden has rendered the scene for both eyes
C16_Witness ==
  /\ VisibleTick /\ pc = "loop" /\ PlaybackState = "Paused"
  /\ SceneRenders = 2 /\ MenuDraws = 0

\* the keys the claim is not about: space, and M, which the claim does not name
IsPlaybackKey(k) == k \in {"SPACE", "M"}

\* the working state at the top of the last iteration, as far as playback goes
WorkingBefore ==
  [Working EXCEPT !.pause = log.before.pause, !.started = log.before.started,
                  !.startTime = log.before.startTime, !.soundtrack = log.before.soundtrack,
                  !.videoFile = log.before.videoFile, !.menu = log.before.menu]

\* C17: the arrows, W, A, S, D, C, H and B never change pause, started, the clock origin,
\* the soundtrack's play/pause state, the video requests or the menu: the loop over the
\* active keys leaves them as it would without these keys, and untouched when space did
\* not fire; and pause only changes in an iteration where space fired, the headset was
\* not mounted or the menu's exit callback ran.
C17_KeysLeavePlayback ==
  VisibleTick =>
     /\ log.afterKeys =
          PlaybackPart(ProcessKeys(WorkingBefore, SelectSeq(log.activeKeys, IsPlaybackKey),
                                   now))
     /\ ~Fired("SPACE") => log.afterKeys = log.before
     /\ pause # log.before.pause =>
          (Fired("SPACE") \/ ~log.hmdMounted \/ Has(log.ev, "exitMenu"))

\* left and recenter fired in an iteration that kept playing and advanced the video
C17_Witness ==
  /\ VisibleTick /\ pc = "loop" /\ Fired("LEFT") /\ Fired("C") /\ ~Fired("SPACE")
  /\ PlaybackState = "Playing" /\ soundtrack.playing /\ log.advance.advanced
  /\ log.drift.ran /\ ~log.drift.reset /\ Yaw = 1

\* C18 as claimed: in every iteration that ends with the menu not hidden (fading out or
\* not), no video frame is retired or advanced, no video call is made, and the soundtrack
\* is neither started nor playing, whatever keys were pressed.
C18_NothingBehindMenu ==
  (VisibleTick /\ ~log.render.menuHidden) =>
     /\ ~log.advance.advanced
     /\ VideoCalls(log.ev) = <<>>
     /\ ~Has(log.ev, "resume")
     /\ pc = "loop" => ~soundtrack.playing

\* C19: whenever an iteration ends with pause = true the soundtrack is not playing; in
\* particular after the pause key and after a forced pause; and the soundtrack is only
\* started (resume) or restarted (video at its beginning) at a point of the iteration
\* where pause is false.
C19_PausedIsSilent ==
  /\ (pc = "loop" /\ pause) => ~soundtrack.playing
  /\ VisibleTick =>
       /\ log.advance.pause => ~log.advance.playing
       /\ Has(log.ev, "resume") => ~log.afterKeys.pause
       /\ Has(log.ev, "restart") => ~log.advance.pause

\* a soundtrack started by the resume key is silenced by the forced pause of the same
\* iteration
C19_Witness ==
  /\ VisibleTick /\ pc = "loop" /\ soundtrack.loaded /\ ~soundtrack.playing /\ pause
  /\ Has(log.ev, "resume") /\ Has(log.ev, "forcePause") /\ log.afterKeys.soundtrack.playing

\* C20 as claimed: in a session without a playing soundtrack (none loaded), on a video of
\* more than one frame, after every iteration the video time is at most the wall-clock
\* time elapsed since the clock origin plus kMaxAudioLag plus one frame duration:
\* front * 1000 / fps <= (now - startTime) + 5 + 1000 / fps.
C20_VideoNotAhead ==
  (InTick /\ pc = "loop" /\ ~soundtrack.loaded /\ videoFile.numFrames > 1) =>
     VideoTimeNum(videoFile) <= (now - startTime + kMaxAudioLag) * Fps + 1000

\* C21: an iteration in which the session is not visible leaves the viewer state as it
\* was: depressedKeys, pause, started, fade, Yaw, Pos2, and the clock origin are the
\* ones before the iteration, so are the soundtrack (playing or not), the video with
\* its outstanding requests, and the menu; no key is active, no step of the visible
\* body runs, no eye is rendered and no frame is submitted; the loop goes on.
C21_InvisibleTickIdle ==
  (InTick /\ ~log.visible) =>
     /\ pc = "loop"
     /\ log.statics = Statics
     /\ log.before = PlaybackPart(Working)
     /\ log.activeKeys = <<>>
     /\ log.ev = <<>>
     /\ log.render = NoRender
     /\ log.result = "none"

\* a not-visible iteration during playback, with the pause key newly down: a visible
\* iteration would have paused
C21_Witness ==
  /\ InTick /\ ~log.visible
  /\ ~pause /\ started /\ soundtrack.playing /\ videoFile.outstanding > 0
  /\ "SPACE" \in Key /\ "SPACE" \notin depressedKeys

====
